---------------------------- MODULE Spec2Model ----------------------------
(***************************************************************************)
(* Model of the GP22 time-to-digital converter driver (myclark/TDC-GP22).  *)
(*                                                                         *)
(* Two variants of the driver are modelled: the dual-channel driver        *)
(* (src/unnamed/part_000, first class of src/GP22.h) and the legacy        *)
(* single-channel driver (src/GP22.cpp, second class of src/GP22.h).       *)
(* The state is the driver object's fields (_config, _status,              *)
(* _conversionFactor) together with the configuration registers of the     *)
(* device at the other end of the SPI bus and the transfers the last       *)
(* operation issued.                                                       *)
(***************************************************************************)
EXTENDS Integers, Sequences, FiniteSets, TLC

VARIABLES
  variant,   \* "dual" (part_000) or "legacy" (GP22.cpp): which driver is built
  config,    \* _config[7][4], the shadow register file, bytes 0..255
  convN,     \* the divider multiple N held in _conversionFactor (= N * 2^-18 us)
  status,    \* _status, the stored 16-bit status word
  dev,       \* the device's seven configuration registers, 4 bytes each
  wire,      \* the transfers issued by the last operation, in order
  last,      \* the last operation called: its name, arguments and return value
  prev       \* history: config, convN, status and dev as they were before that call

vars == <<variant, config, convN, status, dev, wire, last, prev>>

-----------------------------------------------------------------------------
(* Fixed-width integer arithmetic and the Arduino bit macros.              *)

\* conversion of an int to uint8_t
U8(x) == x % 256

\* conversion of an int to uint16_t
U16(x) == x % 65536

\* conversion of an int to int8_t (two's complement wrap)
I8(x) == ((x + 128) % 256) - 128

\* x << n on a non-negative int (no overflow at the widths used)
Shl(x, n) == x * (2 ^ n)

\* x >> n on a non-negative int
Shr(x, n) == x \div (2 ^ n)

\* bitRead(x, n)
bitRead(x, n) == (x \div (2 ^ n)) % 2

\* bitSet(x, n): x |= (1 << n)
bitSet(x, n) == IF bitRead(x, n) = 1 THEN x ELSE x + 2 ^ n

\* bitClear(x, n): x &= ~(1 << n)
bitClear(x, n) == IF bitRead(x, n) = 1 THEN x - 2 ^ n ELSE x

\* bitWrite(x, n, b): b ? bitSet(x, n) : bitClear(x, n)
bitWrite(x, n, b) == IF b # 0 THEN bitSet(x, n) ELSE bitClear(x, n)

\* a & b on non-negative ints
RECURSIVE BitAnd(_, _)
BitAnd(a, b) ==
  IF a = 0 \/ b = 0 THEN 0
  ELSE ((a % 2) * (b % 2)) + 2 * BitAnd(a \div 2, b \div 2)

\* a ^ b on non-negative ints
RECURSIVE BitXor(_, _)
BitXor(a, b) ==
  IF a = 0 THEN b
  ELSE IF b = 0 THEN a
  ELSE (((a % 2) + (b % 2)) % 2) + 2 * BitXor(a \div 2, b \div 2)

\* ~x on an int (after integer promotion to a signed int)
BitNot(x) == -x - 1

\* enum Channel : uint8_t { CH1, CH2 }
CH1 == 0

CH2 == 1

Channels == {CH1, CH2}

-----------------------------------------------------------------------------
(* The register file.                                                      *)

\* _config as initialised in the dual-channel class
DefaultConfigDual ==
  [r \in 0..6 |->
     CASE r = 0 -> [b \in 0..3 |-> <<243, 7, 104, 0>>[b + 1]]
       [] r = 1 -> [b \in 0..3 |-> <<33, 66, 0, 0>>[b + 1]]
       [] r = 2 -> [b \in 0..3 |-> <<32, 0, 0, 0>>[b + 1]]
       [] r = 3 -> [b \in 0..3 |-> <<32, 0, 0, 0>>[b + 1]]
       [] r = 4 -> [b \in 0..3 |-> <<32, 0, 0, 0>>[b + 1]]
       [] r = 5 -> [b \in 0..3 |-> <<64, 0, 0, 0>>[b + 1]]
       [] r = 6 -> [b \in 0..3 |-> <<64, 32, 96, 0>>[b + 1]]]

\* _config as initialised in the legacy class (register 4 byte 0 is 0x10)
DefaultConfigLegacy ==
  [DefaultConfigDual EXCEPT ![4] = [b \in 0..3 |-> <<16, 0, 0, 0>>[b + 1]]]

\* _config[r][b] = v
PutByte(cfg, r, b, v) == [cfg EXCEPT ![r][b] = v]

\* bit n (0..31) of a register of the file read as a big-endian 32-bit
\* word, byte 0 being the most significant (getConfig)
RegBit(reg, n) == bitRead(reg[3 - (n \div 8)], n % 8)

\* bits lo..hi (at most 8 of them) of that word, as a number
RECURSIVE RegField(_, _, _)
RegField(reg, lo, hi) ==
  IF hi < lo THEN 0
  ELSE RegBit(reg, lo) + 2 * RegField(reg, lo + 1, hi)

\* the record kept of the last call
Call(op, args, ret) == [op |-> op, args |-> args, ret |-> ret]

\* the driver's and the device's state, as recorded in prev before each call
Before == [config |-> config, convN |-> convN, status |-> status, dev |-> dev]

-----------------------------------------------------------------------------
(* Dual-channel driver: getters, as functions of the register file.        *)

\* (_config[0][2] & B00001000) > 0, returned as uint8_t
getMeasurementMode(cfg) == IF BitAnd(cfg[0][2], 8) > 0 THEN 1 ELSE 0

getClkPreDiv(cfg) ==
  LET divRaw == Shr(BitAnd(cfg[0][1], 48), 4)
  IN  CASE divRaw = 0 -> 1
        [] divRaw = 1 -> 2
        [] divRaw \in {2, 3} -> 4
        [] OTHER -> 0

getExpectedHits(cfg, channel) ==
  IF channel = CH1 THEN BitAnd(cfg[1][1], 7)
  ELSE Shr(BitAnd(cfg[1][1], 56), 3)

isDoubleRes(cfg) == BitAnd(cfg[6][2], 16) > 0

isQuadRes(cfg) == BitAnd(cfg[6][2], 32) > 0

isSingleRes(cfg) == ~isDoubleRes(cfg) /\ ~isQuadRes(cfg)

getHit1Op(cfg) == BitAnd(cfg[1][0], 15)

getHit2Op(cfg) == Shr(BitAnd(cfg[1][0], 240), 4)

-----------------------------------------------------------------------------
(* Dual-channel driver: the setters' effect on the register file.          *)

DoSetSingleRes(cfg) ==
  LET configPiece == bitClear(bitClear(cfg[6][2], 4), 5)
  IN  PutByte(cfg, 6, 2, configPiece)

\* setDoubleRes() that sets bit 4 and forgets to clear bit 5
DoSetDoubleRes_KeepsQuad(cfg) ==
  LET configPiece == bitSet(cfg[6][2], 4)
  IN  PutByte(cfg, 6, 2, configPiece)

DoSetDoubleRes(cfg) ==
  LET configPiece == bitClear(bitSet(cfg[6][2], 4), 5)
  IN  PutByte(cfg, 6, 2, configPiece)

\* the guard compares getMeasurementMode(), which is 0 or 1, with 2
DoSetQuadRes(cfg) ==
  IF getMeasurementMode(cfg) = 2
  THEN LET configPiece == bitClear(bitSet(cfg[6][2], 5), 4)
       IN  PutByte(cfg, 6, 2, configPiece)
  ELSE cfg

\* setMeasurementMode() without the downgrade of quad resolution in mode 1
DoSetMeasurementMode_NoDowngrade(cfg, mode) ==
  LET configPiece == cfg[0][2]
  IN  IF mode = 1 THEN PutByte(cfg, 0, 2, bitClear(configPiece, 3))
      ELSE IF mode = 2 THEN PutByte(cfg, 0, 2, bitSet(configPiece, 3))
      ELSE PutByte(cfg, 0, 2, configPiece)

\* configPiece is read first; setDoubleRes() writes _config[6][2] in between
DoSetMeasurementMode(cfg, mode) ==
  LET configPiece == cfg[0][2]
  IN  IF mode = 1
      THEN LET cfg1 == IF isQuadRes(cfg) THEN DoSetDoubleRes(cfg) ELSE cfg
           IN  PutByte(cfg1, 0, 2, bitClear(configPiece, 3))
      ELSE IF mode = 2
      THEN PutByte(cfg, 0, 2, bitSet(configPiece, 3))
      ELSE PutByte(cfg, 0, 2, configPiece)

DoSetClkPreDiv(cfg, div) ==
  LET configPiece == cfg[0][1]
      cleared == bitClear(bitClear(configPiece, 4), 5)
  IN  IF div = 1 \/ div = 2 \/ div = 4
      THEN PutByte(cfg, 0, 1,
                   IF div = 2 THEN bitSet(cleared, 4)
                   ELSE IF div = 4 THEN bitSet(cleared, 5)
                   ELSE cleared)
      ELSE PutByte(cfg, 0, 1, configPiece)

\* N = getClkPreDiv(); _conversionFactor = tRef * qConv * timeBase * N
updateConversionFactor(cfg) == getClkPreDiv(cfg)

\* setExpectedHits() that adds the hits without clearing the field first
DoSetExpectedHits_NoClear(cfg, channel, hits) ==
  LET configPiece == cfg[1][1]
  IN  IF hits >= 0 /\ hits <= 4
      THEN IF channel = CH1 THEN PutByte(cfg, 1, 1, U8(configPiece + hits))
           ELSE IF channel = CH2
           THEN PutByte(cfg, 1, 1, U8(configPiece + Shl(hits, 3)))
           ELSE PutByte(cfg, 1, 1, configPiece)
      ELSE PutByte(cfg, 1, 1, configPiece)

DoSetExpectedHits(cfg, channel, hits) ==
  LET configPiece == cfg[1][1]
  IN  IF hits >= 0 /\ hits <= 4
      THEN IF channel = CH1
           THEN PutByte(cfg, 1, 1,
                  U8(bitClear(bitClear(bitClear(configPiece, 0), 1), 2) + hits))
           ELSE IF channel = CH2
           THEN PutByte(cfg, 1, 1,
                  U8(bitClear(bitClear(bitClear(configPiece, 3), 4), 5)
                     + Shl(hits, 3)))
           ELSE PutByte(cfg, 1, 1, configPiece)
      ELSE PutByte(cfg, 1, 1, configPiece)

DoDefineHit1Op(cfg, op) ==
  LET configPiece ==
        bitWrite(bitWrite(bitWrite(bitWrite(cfg[1][0], 0, 0), 1, 0), 2, 0), 3, 0)
  IN  PutByte(cfg, 1, 0, U8(configPiece + op))

DoDefineHit2Op(cfg, op) ==
  LET configPiece ==
        bitWrite(bitWrite(bitWrite(bitWrite(cfg[1][0], 4, 0), 5, 0), 6, 0), 7, 0)
  IN  PutByte(cfg, 1, 0, U8(configPiece + Shl(op, 4)))

-----------------------------------------------------------------------------
(* Bounds on the arguments the operations are called with.                 *)

\* setMeasurementMode is called with 0..MaxModeArg
MaxModeArg == 3

\* setClkPreDiv is called with 0..MaxDivArg and with 255
MaxDivArg == 5

\* setExpectedHits is called with 0..MaxHitsArg and with 255
MaxHitsArg == 6

ModeArgs == 0..MaxModeArg

DivArgs == (0..MaxDivArg) \cup {255}

HitsArgs == (0..MaxHitsArg) \cup {255}

\* status words the device answers with: every single bit alone, every
\* single bit missing, none, all, and the word 0x0065
StatusWords ==
  {2 ^ k : k \in 0..15} \cup {65535 - 2 ^ k : k \in 0..15} \cup {0, 101, 65535}

\* raw 32-bit results the device answers with, as the four bytes it sends:
\* 0, 1.0 in Q16.16 and -1
ResultWords == {<<0, 0, 0, 0>>, <<0, 1, 0, 0>>, <<255, 255, 255, 255>>}

\* readResult is called with 0..MaxResultReg
MaxResultReg == 4

\* operator codes updateALUInstruction is called with (4-bit patterns)
AluOps == {0, 6, 9, 15}

\* what the uninitialised _status may hold after construction: any 16-bit
\* word; two of them, all bits clear and all but the timeout bits set
UninitialisedStatus == {0, 63999}

\* the device's configuration registers before the driver has written them
DevicePowerOn == [r \in 0..6 |-> [b \in 0..3 |-> 0]]

-----------------------------------------------------------------------------
(* The state after construction.                                           *)

\* GP22::GP22 of the dual-channel driver: _config has its defaults, the
\* conversion factor is precalculated, _status is left uninitialised
InitDual ==
  /\ variant = "dual"
  /\ config = DefaultConfigDual
  /\ convN = updateConversionFactor(DefaultConfigDual)
  /\ status \in UninitialisedStatus
  /\ dev = DevicePowerOn
  /\ wire = <<>>
  /\ last = Call("GP22", <<>>, 0)
  /\ prev = Before

\* GP22::GP22 of the legacy driver: no status word and no cached factor
\* (measConv multiplies by the factor for N = 1 on every call)
InitLegacy ==
  /\ variant = "legacy"
  /\ config = DefaultConfigLegacy
  /\ convN = 1
  /\ status = 0
  /\ dev = DevicePowerOn
  /\ wire = <<>>
  /\ last = Call("GP22", <<>>, 0)
  /\ prev = Before

-----------------------------------------------------------------------------
(* Dual-channel driver: the setters.  None of them issues a transfer.      *)

setSingleRes ==
  /\ variant = "dual"
  /\ config' = DoSetSingleRes(config)
  /\ wire' = <<>>
  /\ last' = Call("setSingleRes", <<>>, 0)
  /\ prev' = Before
  /\ UNCHANGED <<variant, convN, status, dev>>

setDoubleRes ==
  /\ variant = "dual"
  /\ config' = DoSetDoubleRes(config)
  /\ wire' = <<>>
  /\ last' = Call("setDoubleRes", <<>>, 0)
  /\ prev' = Before
  /\ UNCHANGED <<variant, convN, status, dev>>

setQuadRes ==
  /\ variant = "dual"
  /\ config' = DoSetQuadRes(config)
  /\ wire' = <<>>
  /\ last' = Call("setQuadRes", <<>>, 0)
  /\ prev' = Before
  /\ UNCHANGED <<variant, convN, status, dev>>

setMeasurementMode(mode) ==
  /\ variant = "dual"
  /\ config' = DoSetMeasurementMode(config, mode)
  /\ wire' = <<>>
  /\ last' = Call("setMeasurementMode", <<mode>>, 0)
  /\ prev' = Before
  /\ UNCHANGED <<variant, convN, status, dev>>

\* setClkPreDiv() that forgets to call updateConversionFactor()
setClkPreDiv_StaleFactor(div) ==
  /\ variant = "dual"
  /\ config' = DoSetClkPreDiv(config, div)
  /\ wire' = <<>>
  /\ last' = Call("setClkPreDiv", <<div>>, 0)
  /\ prev' = Before
  /\ UNCHANGED <<variant, convN, status, dev>>

\* the bits are written back and the factor recomputed on every call
setClkPreDiv(div) ==
  /\ variant = "dual"
  /\ config' = DoSetClkPreDiv(config, div)
  /\ convN' = updateConversionFactor(DoSetClkPreDiv(config, div))
  /\ wire' = <<>>
  /\ last' = Call("setClkPreDiv", <<div>>, 0)
  /\ prev' = Before
  /\ UNCHANGED <<variant, status, dev>>

setExpectedHits(channel, hits) ==
  /\ variant = "dual"
  /\ config' = DoSetExpectedHits(config, channel, hits)
  /\ wire' = <<>>
  /\ last' = Call("setExpectedHits", <<channel, hits>>, 0)
  /\ prev' = Before
  /\ UNCHANGED <<variant, convN, status, dev>>

-----------------------------------------------------------------------------
(* The configuration codec of the dual-channel driver: any sequence of the *)
(* resolution, mode, pre-divider and expected-hits setters.                *)

Next ==
  \/ setSingleRes
  \/ setDoubleRes
  \/ setQuadRes
  \/ \E mode \in ModeArgs : setMeasurementMode(mode)
  \/ \E div \in DivArgs : setClkPreDiv(div)
  \/ \E channel \in Channels, hits \in HitsArgs : setExpectedHits(channel, hits)

Spec == InitDual /\ [][Next]_vars

-----------------------------------------------------------------------------
(* First-wave settings.  The code is the same in both drivers              *)
(* (part_000 lines 385-537, GP22.cpp lines 218-370).                       *)

\* the offsets the header documents for setFirstWaveOffset: -36 .. +35 mV
FirstWaveOffsets == (-36)..35

\* the stop delays setFirstWaveDelays is called with, in the documented
\* order 3 <= stop1 < stop2 < stop3 <= 63
DelayStops == {3, 4, 62, 63}

isFirstWaveRisingEdge(cfg) == BitAnd(cfg[4][2], 128) > 0

\* twosComp is a uint8_t: ~twosComp is taken on the promoted int
getFirstWaveOffset(cfg) ==
  LET configPiece == cfg[4][2]
      twosComp == BitAnd(configPiece, 31)
      offset == IF twosComp > 15
                THEN I8(-1 * (BitNot(twosComp) + 1))
                ELSE I8(twosComp)
  IN  IF BitAnd(configPiece, 32) > 0 THEN I8(offset - 20)
      ELSE IF BitAnd(configPiece, 64) > 0 THEN I8(offset + 20)
      ELSE offset

DoSetFirstWaveOffset(cfg, offset) ==
  LET configPiece == cfg[4][2]
      off == IF offset > 15 THEN I8(offset - 20)
             ELSE IF offset < -16 THEN I8(offset + 20)
             ELSE offset
      ranged == IF offset > 15 THEN bitClear(bitSet(configPiece, 6), 5)
                ELSE IF offset < -16 THEN bitClear(bitSet(configPiece, 5), 6)
                ELSE bitClear(bitClear(configPiece, 5), 6)
      cleared == BitXor(ranged, BitAnd(ranged, 31))
      twosComp == U8(31 + (off + 1))
  IN  PutByte(cfg, 4, 2,
              IF off > 0 /\ off <= 15 THEN U8(cleared + off)
              ELSE IF off < 0 /\ off >= -16 THEN U8(cleared + twosComp)
              ELSE cleared)

DoSetFirstWaveRisingEdge(cfg, on) ==
  LET configPiece == cfg[4][2]
  IN  PutByte(cfg, 4, 2,
              IF on THEN bitClear(configPiece, 7) ELSE bitSet(configPiece, 7))

\* the local FourByte configPiece at the end of setFirstWaveDelays, as the
\* bytes bit8[3], bit8[2], bit8[1], bit8[0] (little-endian union: bit8[3] is
\* the most significant byte, bit16[1] the top half), in the order of
\* _config[3][0..3].  The function ends without storing it in _config.
FirstWaveDelaysPiece(cfg, stop1, stop2, stop3) ==
  LET b3 == cfg[3][0]
      b2 == cfg[3][1]
      b1 == cfg[3][2]
      b0 == cfg[3][3]
      topBytes0 == b2 + Shl(b3, 8)
      topBytes1 == BitXor(topBytes0, BitAnd(topBytes0, 1008))
      topBytes == U16(topBytes1 + Shl(stop3, 4))
      b2a == topBytes % 256
      b3a == Shr(topBytes, 8)
      middleBytes0 == U16(Shl(b2a, 8) + b1)
      middleBytes1 == BitXor(middleBytes0, BitAnd(middleBytes0, 4032))
      middleBytes == U16(middleBytes1 + Shl(stop2, 6))
      b1a == U8(middleBytes)
      b2b == U8(Shr(middleBytes, 8))
      byte1a == BitXor(b1a, BitAnd(b1a, 63))
      byte1 == U8(byte1a + stop1)
  IN  [b \in 0..3 |-> <<b3a, b2b, byte1, b0>>[b + 1]]

\* configPiece is a local and is not written back: _config is left as it was
DoSetFirstWaveDelays(cfg, stop1, stop2, stop3) ==
  LET configPiece == FirstWaveDelaysPiece(cfg, stop1, stop2, stop3)
  IN  cfg

setFirstWaveOffset(offset) ==
  /\ config' = DoSetFirstWaveOffset(config, offset)
  /\ wire' = <<>>
  /\ last' = Call("setFirstWaveOffset", <<offset>>, 0)
  /\ prev' = Before
  /\ UNCHANGED <<variant, convN, status, dev>>

setFirstWaveRisingEdge(on) ==
  /\ config' = DoSetFirstWaveRisingEdge(config, on)
  /\ wire' = <<>>
  /\ last' = Call("setFirstWaveRisingEdge", <<on>>, 0)
  /\ prev' = Before
  /\ UNCHANGED <<variant, convN, status, dev>>

setFirstWaveDelays(stop1, stop2, stop3) ==
  /\ config' = DoSetFirstWaveDelays(config, stop1, stop2, stop3)
  /\ wire' = <<>>
  /\ last' = Call("setFirstWaveDelays", <<stop1, stop2, stop3>>, 0)
  /\ prev' = Before
  /\ UNCHANGED <<variant, convN, status, dev>>

NextFirstWave ==
  \/ \E offset \in FirstWaveOffsets : setFirstWaveOffset(offset)
  \/ \E on \in BOOLEAN : setFirstWaveRisingEdge(on)
  \/ \E stop1, stop2, stop3 \in DelayStops :
       /\ stop1 < stop2
       /\ stop2 < stop3
       /\ setFirstWaveDelays(stop1, stop2, stop3)

\* the first-wave setters called in any order on either driver
SpecFirstWave == (InitDual \/ InitLegacy) /\ [][NextFirstWave]_vars

-----------------------------------------------------------------------------
(* The transport: transfers, the device's registers, and the operations    *)
(* that use the bus.                                                       *)

\* one opcode byte followed by the data bytes, as put on the bus
Transfer(opcode, data) == [opcode |-> opcode, data |-> data]

\* the bytes of register r of the file, in the order they are sent
RegBytes(cfg, r) == <<cfg[r][0], cfg[r][1], cfg[r][2], cfg[r][3]>>

\* transfer2B: bit8[1] is the first byte received, bit8[0] the second;
\* the result is bit16[0] of the little-endian union
Assemble2(resp) == resp[2] + Shl(resp[1], 8)

\* transfer4B: bit8[3] is the first byte received ... bit8[0] the last;
\* the result is bit32, here already converted to the int32_t readResult
\* returns (a first byte of 128 or more makes it negative)
Assemble4(resp) ==
  resp[4] + Shl(resp[3], 8) + Shl(resp[2], 16)
  + Shl(IF resp[1] >= 128 THEN resp[1] - 256 ELSE resp[1], 24)

\* the bytes of a 16-bit word as the device sends them, MSB first
Bytes2(w) == <<Shr(w, 8) % 256, w % 256>>

\* what one transfer does to the device's configuration registers:
\* 0x50 is the power-on reset, 0x80 + r writes configuration register r
Deliver(d, t) ==
  IF t.opcode = 80 THEN DevicePowerOn
  ELSE IF t.opcode >= 128 /\ t.opcode <= 134 /\ Len(t.data) = 4
  THEN [d EXCEPT ![t.opcode - 128] = [b \in 0..3 |-> t.data[b + 1]]]
  ELSE d

RECURSIVE DeliverAll(_, _)
DeliverAll(d, ts) ==
  IF ts = <<>> THEN d ELSE DeliverAll(Deliver(d, Head(ts)), Tail(ts))

\* (_status & 0x0600) > 0
timedOut(st) == BitAnd(st, 1536) > 0

getMeasuredHits(st, channel) ==
  IF channel = CH1 THEN Shr(BitAnd(st, 56), 3)
  ELSE Shr(BitAnd(st, 448), 6)

getReadPointer(st) == BitAnd(st, 7)

\* updateConfig that stops one register short (i < 6)
ConfigTransfers_OneShort(cfg) ==
  [k \in 1..6 |-> Transfer(128 + (k - 1), RegBytes(cfg, k - 1))]

\* the loop of updateConfig: for i = 0..6, transfer4B(0x80 + i, _config[i][0..3])
ConfigTransfers(cfg) ==
  [k \in 1..7 |-> Transfer(128 + (k - 1), RegBytes(cfg, k - 1))]

\* SPI set-up, then the power-on reset opcode, then updateConfig()
begin ==
  /\ wire' = <<Transfer(80, <<>>)>> \o ConfigTransfers(config)
  /\ dev' = DeliverAll(dev, <<Transfer(80, <<>>)>> \o ConfigTransfers(config))
  /\ last' = Call("begin", <<>>, 0)
  /\ prev' = Before
  /\ UNCHANGED <<variant, config, convN, status>>

updateConfig ==
  /\ wire' = ConfigTransfers(config)
  /\ dev' = DeliverAll(dev, ConfigTransfers(config))
  /\ last' = Call("updateConfig", <<>>, 0)
  /\ prev' = Before
  /\ UNCHANGED <<variant, config, convN, status>>

measure ==
  /\ wire' = <<Transfer(112, <<>>)>>
  /\ dev' = DeliverAll(dev, <<Transfer(112, <<>>)>>)
  /\ last' = Call("measure", <<>>, 0)
  /\ prev' = Before
  /\ UNCHANGED <<variant, config, convN, status>>

\* readStatus that assembles the two bytes in the wrong order
readStatus_Swapped(word) ==
  /\ variant = "dual"
  /\ wire' = <<Transfer(180, <<0, 0>>)>>
  /\ dev' = DeliverAll(dev, <<Transfer(180, <<0, 0>>)>>)
  /\ status' = Bytes2(word)[1] + Shl(Bytes2(word)[2], 8)
  /\ last' = Call("readStatus", <<word>>, 0)
  /\ prev' = Before
  /\ UNCHANGED <<variant, config, convN>>

\* word: the status word the device answers opcode 0xB4 with
readStatus(word) ==
  /\ variant = "dual"
  /\ wire' = <<Transfer(180, <<0, 0>>)>>
  /\ dev' = DeliverAll(dev, <<Transfer(180, <<0, 0>>)>>)
  /\ status' = Assemble2(Bytes2(word))
  /\ last' = Call("readStatus", <<word>>, 0)
  /\ prev' = Before
  /\ UNCHANGED <<variant, config, convN>>

\* word: the raw result the device answers opcode 0xB0 + resultRegister with
readResult(resultRegister, word) ==
  /\ variant = "dual"
  /\ wire' = IF resultRegister < 4 /\ resultRegister >= 0
             THEN <<Transfer(176 + resultRegister, <<0, 0, 0, 0>>)>>
             ELSE <<>>
  /\ dev' = dev
  /\ last' = Call("readResult", <<resultRegister>>,
                  IF resultRegister < 4 /\ resultRegister >= 0
                  THEN Assemble4(word)
                  ELSE 0)
  /\ prev' = Before
  /\ UNCHANGED <<variant, config, convN, status>>

\* testComms that compares the echoed byte with byte 1 of shadow register 1
testComms_WrongByte ==
  /\ wire' = <<Transfer(181, <<0>>)>>
  /\ dev' = DeliverAll(dev, <<Transfer(181, <<0>>)>>)
  /\ last' = Call("testComms", <<>>, dev[1][0] = config[1][1])
  /\ prev' = Before
  /\ UNCHANGED <<variant, config, convN, status>>

\* read register 5 holds the highest 8 bits of the device's configuration
\* register 1; the transport is fault-free
testComms ==
  /\ wire' = <<Transfer(181, <<0>>)>>
  /\ dev' = DeliverAll(dev, <<Transfer(181, <<0>>)>>)
  /\ last' = Call("testComms", <<>>, dev[1][0] = config[1][0])
  /\ prev' = Before
  /\ UNCHANGED <<variant, config, convN, status>>

\* updateALUInstruction that sends register 1 before storing the operators
updateALUInstruction_SendsFirst(hit1Op, hit2Op) ==
  /\ variant = "dual"
  /\ config' = DoDefineHit2Op(DoDefineHit1Op(config, hit1Op), hit2Op)
  /\ wire' = <<Transfer(129, RegBytes(config, 1))>>
  /\ dev' = DeliverAll(dev, <<Transfer(129, RegBytes(config, 1))>>)
  /\ last' = Call("updateALUInstruction", <<hit1Op, hit2Op>>, 0)
  /\ prev' = Before
  /\ UNCHANGED <<variant, convN, status>>

updateALUInstruction(hit1Op, hit2Op) ==
  LET cfg2 == DoDefineHit2Op(DoDefineHit1Op(config, hit1Op), hit2Op)
  IN  /\ variant = "dual"
      /\ config' = cfg2
      /\ wire' = <<Transfer(129, RegBytes(cfg2, 1))>>
      /\ dev' = DeliverAll(dev, <<Transfer(129, RegBytes(cfg2, 1))>>)
      /\ last' = Call("updateALUInstruction", <<hit1Op, hit2Op>>, 0)
      /\ prev' = Before
      /\ UNCHANGED <<variant, convN, status>>

\* a call of one of the status decoders: it reads _status, returns the
\* decoded value and issues no transfer
decodeStatus(op, args, ret) ==
  /\ variant = "dual"
  /\ wire' = <<>>
  /\ last' = Call(op, args, ret)
  /\ prev' = Before
  /\ UNCHANGED <<variant, config, convN, status, dev>>

\* status reads and the other bus operations of the dual-channel driver,
\* with setDoubleRes() to leave a change of the register file un-pushed
NextStatus ==
  \/ begin
  \/ updateConfig
  \/ measure
  \/ \E word \in StatusWords : readStatus(word)
  \/ \E resultRegister \in 0..MaxResultReg, word \in ResultWords :
       readResult(resultRegister, word)
  \/ testComms
  \/ setDoubleRes
  \/ decodeStatus("timedOut", <<>>, timedOut(status))
  \/ \E channel \in Channels :
       decodeStatus("getMeasuredHits", <<channel>>,
                    getMeasuredHits(status, channel))
  \/ decodeStatus("getReadPointer", <<>>, getReadPointer(status))

SpecStatus == InitDual /\ [][NextStatus]_vars

\* configuration pushes on either driver, with setters that leave changes
\* of registers 4 and 6 un-pushed
NextPush ==
  \/ begin
  \/ updateConfig
  \/ \E hit1Op, hit2Op \in AluOps : updateALUInstruction(hit1Op, hit2Op)
  \/ \E on \in BOOLEAN : setFirstWaveRisingEdge(on)
  \/ setSingleRes

SpecPush == (InitDual \/ InitLegacy) /\ [][NextPush]_vars

-----------------------------------------------------------------------------
(* The remaining named settings of the dual-channel driver.                *)

isAutoCalcOn(cfg) == BitAnd(cfg[3][0], 128) > 0

isFirstWaveMode(cfg) == BitAnd(cfg[3][0], 64) > 0

isPulseWidthMeasOn(cfg) == BitAnd(cfg[4][1], 1) = 0

DoSetAutoCalcOn(cfg, on) ==
  LET configPiece == cfg[3][0]
  IN  PutByte(cfg, 3, 0,
              IF on THEN bitSet(configPiece, 7) ELSE bitClear(configPiece, 7))

\* the argument is not read: bit 6 is set whatever it is.  The dual-channel
\* driver stores the byte back into register 3, the legacy driver stores it
\* into byte 0 of register 4
DoSetFirstWaveMode(v, cfg, on) ==
  LET configPiece == bitSet(cfg[3][0], 6)
  IN  IF v = "dual" THEN PutByte(cfg, 3, 0, configPiece)
      ELSE PutByte(cfg, 4, 0, configPiece)

DoSetPulseWidthMeasOn(cfg, on) ==
  LET configPiece == cfg[4][1]
  IN  PutByte(cfg, 4, 1,
              IF on THEN bitClear(configPiece, 0) ELSE bitSet(configPiece, 0))

\* the both-edges bits of register 2 byte 0 are set for an argument of 2 and
\* are written by no other path
DoSetEdgeSensitivity(cfg, start, stop1, stop2) ==
  LET p0 == IF start = 0 \/ start = 1
            THEN bitWrite(cfg[0][2], 0, start) ELSE cfg[0][2]
      p1 == IF stop1 = 0 \/ stop1 = 1 THEN bitWrite(p0, 1, stop1)
            ELSE IF stop1 = 2 THEN bitClear(p0, 1) ELSE p0
      q1 == IF stop1 = 2 THEN bitSet(cfg[2][0], 3) ELSE cfg[2][0]
      reg0p2 == IF stop2 = 0 \/ stop2 = 1 THEN bitWrite(p1, 2, stop2)
                ELSE IF stop2 = 2 THEN bitClear(p1, 2) ELSE p1
      reg2p0 == IF stop2 = 2 THEN bitSet(q1, 4) ELSE q1
  IN  PutByte(PutByte(cfg, 0, 2, reg0p2), 2, 0, reg2p0)

setAutoCalcOn(on) ==
  /\ variant = "dual"
  /\ config' = DoSetAutoCalcOn(config, on)
  /\ wire' = <<>>
  /\ last' = Call("setAutoCalcOn", <<on>>, 0)
  /\ prev' = Before
  /\ UNCHANGED <<variant, convN, status, dev>>

setFirstWaveMode(on) ==
  /\ config' = DoSetFirstWaveMode(variant, config, on)
  /\ wire' = <<>>
  /\ last' = Call("setFirstWaveMode", <<on>>, 0)
  /\ prev' = Before
  /\ UNCHANGED <<variant, convN, status, dev>>

\* setPulseWidthMeasOn that pushes the register file as soon as it is changed
setPulseWidthMeasOn_Pushes(on) ==
  /\ config' = DoSetPulseWidthMeasOn(config, on)
  /\ wire' = ConfigTransfers(DoSetPulseWidthMeasOn(config, on))
  /\ dev' = DeliverAll(dev, ConfigTransfers(DoSetPulseWidthMeasOn(config, on)))
  /\ last' = Call("setPulseWidthMeasOn", <<on>>, 0)
  /\ prev' = Before
  /\ UNCHANGED <<variant, convN, status>>

setPulseWidthMeasOn(on) ==
  /\ config' = DoSetPulseWidthMeasOn(config, on)
  /\ wire' = <<>>
  /\ last' = Call("setPulseWidthMeasOn", <<on>>, 0)
  /\ prev' = Before
  /\ UNCHANGED <<variant, convN, status, dev>>

setEdgeSensitivity(start, stop1, stop2) ==
  /\ variant = "dual"
  /\ config' = DoSetEdgeSensitivity(config, start, stop1, stop2)
  /\ wire' = <<>>
  /\ last' = Call("setEdgeSensitivity", <<start, stop1, stop2>>, 0)
  /\ prev' = Before
  /\ UNCHANGED <<variant, convN, status, dev>>

defineHit1Op(op) ==
  /\ variant = "dual"
  /\ config' = DoDefineHit1Op(config, op)
  /\ wire' = <<>>
  /\ last' = Call("defineHit1Op", <<op>>, 0)
  /\ prev' = Before
  /\ UNCHANGED <<variant, convN, status, dev>>

defineHit2Op(op) ==
  /\ variant = "dual"
  /\ config' = DoDefineHit2Op(config, op)
  /\ wire' = <<>>
  /\ last' = Call("defineHit2Op", <<op>>, 0)
  /\ prev' = Before
  /\ UNCHANGED <<variant, convN, status, dev>>

-----------------------------------------------------------------------------
(* Every named setting of the dual-channel driver next to the operations   *)
(* that push the shadow registers to the device.                           *)

\* the getters, each with the arguments it is called with
Getters ==
  { <<"getMeasurementMode", <<>>>>, <<"getClkPreDiv", <<>>>>,
    <<"getExpectedHits", <<CH1>>>>, <<"getExpectedHits", <<CH2>>>>,
    <<"isSingleRes", <<>>>>, <<"isDoubleRes", <<>>>>, <<"isQuadRes", <<>>>>,
    <<"isAutoCalcOn", <<>>>>, <<"getHit1Op", <<>>>>, <<"getHit2Op", <<>>>>,
    <<"isFirstWaveMode", <<>>>>, <<"isPulseWidthMeasOn", <<>>>>,
    <<"isFirstWaveRisingEdge", <<>>>>, <<"getFirstWaveOffset", <<>>>> }

\* what getter g returns on the register file cfg
GetterValue(g, cfg) ==
  CASE g[1] = "getMeasurementMode" -> getMeasurementMode(cfg)
    [] g[1] = "getClkPreDiv" -> getClkPreDiv(cfg)
    [] g[1] = "getExpectedHits" -> getExpectedHits(cfg, g[2][1])
    [] g[1] = "isSingleRes" -> isSingleRes(cfg)
    [] g[1] = "isDoubleRes" -> isDoubleRes(cfg)
    [] g[1] = "isQuadRes" -> isQuadRes(cfg)
    [] g[1] = "isAutoCalcOn" -> isAutoCalcOn(cfg)
    [] g[1] = "getHit1Op" -> getHit1Op(cfg)
    [] g[1] = "getHit2Op" -> getHit2Op(cfg)
    [] g[1] = "isFirstWaveMode" -> isFirstWaveMode(cfg)
    [] g[1] = "isPulseWidthMeasOn" -> isPulseWidthMeasOn(cfg)
    [] g[1] = "isFirstWaveRisingEdge" -> isFirstWaveRisingEdge(cfg)
    [] g[1] = "getFirstWaveOffset" -> getFirstWaveOffset(cfg)

\* a call of a getter: it reads _config and nothing else happens
getSetting(g) ==
  /\ variant = "dual"
  /\ wire' = <<>>
  /\ last' = Call(g[1], g[2], GetterValue(g, config))
  /\ prev' = Before
  /\ UNCHANGED <<variant, config, convN, status, dev>>

\* the bytes of the register file cfg that differ from the defaults
ChangedBytes(cfg) ==
  {rb \in (0..6) \X (0..3) : cfg[rb[1]][rb[2]] # DefaultConfigDual[rb[1]][rb[2]]}

\* the setters are explored while fewer than MaxChanged bytes of the shadow
\* registers differ from the defaults
MaxChanged == 2

FewChanged == Cardinality(ChangedBytes(config)) < MaxChanged

NextFrame ==
  \/ begin
  \/ updateConfig
  \/ updateALUInstruction(6, 9)
  \/ \E g \in Getters : getSetting(g)
  \/ FewChanged /\ setSingleRes
  \/ FewChanged /\ setDoubleRes
  \/ FewChanged /\ setQuadRes
  \/ FewChanged /\ setMeasurementMode(1)
  \/ FewChanged /\ setClkPreDiv(2)
  \/ FewChanged /\ \E channel \in Channels : setExpectedHits(channel, 3)
  \/ FewChanged /\ setAutoCalcOn(TRUE)
  \/ FewChanged /\ defineHit1Op(9)
  \/ FewChanged /\ defineHit2Op(6)
  \/ FewChanged /\ setEdgeSensitivity(1, 2, 1)
  \/ FewChanged /\ \E on \in BOOLEAN : setFirstWaveMode(on)
  \/ FewChanged /\ setFirstWaveDelays(3, 4, 5)
  \/ FewChanged /\ setFirstWaveRisingEdge(FALSE)
  \/ FewChanged /\ setFirstWaveOffset(-5)
  \/ FewChanged /\ setPulseWidthMeasOn(FALSE)

SpecFrame == InitDual /\ [][NextFrame]_vars

-----------------------------------------------------------------------------
(* The ALU operator fields: defineHit1Op and defineHit2Op called with      *)
(* operator codes inside and outside the 4-bit range.                      *)

\* the operator codes are explored from 0 to MaxOpArg, and at 255
MaxOpArg == 17

OpArgs == (0..MaxOpArg) \cup {255}

NextAlu ==
  \/ \E op \in OpArgs : defineHit1Op(op)
  \/ \E op \in OpArgs : defineHit2Op(op)

SpecAlu == InitDual /\ [][NextAlu]_vars

-----------------------------------------------------------------------------
(* The edge sensitivities: setEdgeSensitivity called with arguments inside *)
(* and outside the documented 0, 1, 2.                                     *)

\* the sensitivities are explored from 0 to MaxEdgeArg
MaxEdgeArg == 3

EdgeArgs == 0..MaxEdgeArg

NextEdge ==
  \E start, stop1, stop2 \in EdgeArgs : setEdgeSensitivity(start, stop1, stop2)

SpecEdge == InitDual /\ [][NextEdge]_vars

-----------------------------------------------------------------------------
(* Legacy driver: the resolution setters take a flag and call each other.  *)
(* Each reads configPiece from _config[6][2] first, lets the setters it    *)
(* calls write _config[6][2], and then stores its own configPiece.         *)

RECURSIVE DoSetDoubleResLegacy(_, _), DoSetQuadResLegacy(_, _)

DoSetDoubleResLegacy(cfg, on) ==
  LET configPiece == cfg[6][2]
  IN  IF on
      THEN PutByte(DoSetQuadResLegacy(cfg, FALSE), 6, 2, bitSet(configPiece, 4))
      ELSE PutByte(cfg, 6, 2, bitClear(configPiece, 4))

DoSetQuadResLegacy(cfg, on) ==
  LET configPiece == cfg[6][2]
  IN  IF on
      THEN PutByte(DoSetDoubleResLegacy(cfg, FALSE), 6, 2, bitSet(configPiece, 5))
      ELSE PutByte(cfg, 6, 2, bitClear(configPiece, 5))

DoSetSingleResLegacy(cfg, on) ==
  LET configPiece == cfg[6][2]
  IN  IF on
      THEN PutByte(DoSetQuadResLegacy(DoSetDoubleResLegacy(cfg, FALSE), FALSE),
                   6, 2, configPiece)
      ELSE PutByte(cfg, 6, 2, configPiece)

setSingleResLegacy(on) ==
  /\ variant = "legacy"
  /\ config' = DoSetSingleResLegacy(config, on)
  /\ wire' = <<>>
  /\ last' = Call("setSingleRes", <<on>>, 0)
  /\ prev' = Before
  /\ UNCHANGED <<variant, convN, status, dev>>

setDoubleResLegacy(on) ==
  /\ variant = "legacy"
  /\ config' = DoSetDoubleResLegacy(config, on)
  /\ wire' = <<>>
  /\ last' = Call("setDoubleRes", <<on>>, 0)
  /\ prev' = Before
  /\ UNCHANGED <<variant, convN, status, dev>>

setQuadResLegacy(on) ==
  /\ variant = "legacy"
  /\ config' = DoSetQuadResLegacy(config, on)
  /\ wire' = <<>>
  /\ last' = Call("setQuadRes", <<on>>, 0)
  /\ prev' = Before
  /\ UNCHANGED <<variant, convN, status, dev>>

\* the legacy driver's resolution setters among other setters it has
NextLegacy ==
  \/ \E on \in BOOLEAN : setSingleResLegacy(on)
  \/ \E on \in BOOLEAN : setDoubleResLegacy(on)
  \/ \E on \in BOOLEAN : setQuadResLegacy(on)
  \/ \E on \in BOOLEAN : setFirstWaveMode(on)
  \/ \E on \in BOOLEAN : setFirstWaveRisingEdge(on)
  \/ \E on \in BOOLEAN : setPulseWidthMeasOn(on)

SpecLegacy == InitLegacy /\ [][NextLegacy]_vars

-----------------------------------------------------------------------------
(* The communication test next to the operations that change register 1   *)
(* in the shadow (defineHit1Op, defineHit2Op) and on the device (begin,    *)
(* updateConfig, updateALUInstruction).  The transport is fault-free.      *)

NextComms ==
  \/ begin
  \/ updateConfig
  \/ \E hit1Op, hit2Op \in AluOps : updateALUInstruction(hit1Op, hit2Op)
  \/ \E op \in AluOps : defineHit1Op(op)
  \/ \E op \in AluOps : defineHit2Op(op)
  \/ testComms

SpecComms == InitDual /\ [][NextComms]_vars

-----------------------------------------------------------------------------
(* Properties of the dual-channel codec, checked under Spec.               *)

\* the bits of byte b of register r that are outside the set of bits `field`
\* are the same in cfg1 and cfg2
SameOutside(cfg1, cfg2, r, b, field) ==
  \A n \in (0..7) \ field : bitRead(cfg1[r][b], n) = bitRead(cfg2[r][b], n)

\* cfg1 and cfg2 agree on every byte except those in `bytes` (pairs <<r, b>>)
SameExceptBytes(cfg1, cfg2, bytes) ==
  \A r \in 0..6, b \in 0..3 : <<r, b>> \notin bytes => cfg1[r][b] = cfg2[r][b]

\* C2: in every state reachable by the resolution and mode setters exactly
\* one of isSingleRes(), isDoubleRes(), isQuadRes() reads true, and bits 4
\* and 5 of register 6 byte 2 are never both set.
C2_ResolutionExclusive ==
  /\ Cardinality({m \in {"single", "double", "quad"} :
                    \/ m = "single" /\ isSingleRes(config)
                    \/ m = "double" /\ isDoubleRes(config)
                    \/ m = "quad" /\ isQuadRes(config)}) = 1
  /\ ~(bitRead(config[6][2], 4) = 1 /\ bitRead(config[6][2], 5) = 1)

\* C2 witness: setDoubleRes() was called while quad resolution was active.
C2_Witness ==
  /\ last.op = "setDoubleRes"
  /\ isQuadRes(prev.config)
  /\ isDoubleRes(config)

\* C3: when quad resolution is active, setMeasurementMode(1) leaves double
\* resolution active and quad inactive and clears the mode bit, and changes
\* no other bit of register 0 byte 2 or of register 6 byte 2.
C3_ModeSwitchDowngrade ==
  (last.op = "setMeasurementMode" /\ last.args = <<1>> /\ isQuadRes(prev.config))
  => /\ isDoubleRes(config)
     /\ ~isQuadRes(config)
     /\ bitRead(config[0][2], 3) = 0
     /\ SameOutside(config, prev.config, 0, 2, {3})
     /\ SameOutside(config, prev.config, 6, 2, {4, 5})

\* C3 witness: setMeasurementMode(1) was called with quad resolution active
\* and the mode bit set.
C3_Witness ==
  /\ last.op = "setMeasurementMode"
  /\ last.args = <<1>>
  /\ isQuadRes(prev.config)
  /\ bitRead(prev.config[0][2], 3) = 1

\* C4: when measurement mode 2 is selected (the mode bit is set),
\* setQuadRes() makes quad resolution active and double inactive.
C4_QuadResInMode2 ==
  (last.op = "setQuadRes" /\ bitRead(prev.config[0][2], 3) = 1)
  => (isQuadRes(config) /\ ~isDoubleRes(config))

C7_ClkPreDivAndFactor ==
  /\ convN = getClkPreDiv(config)
  /\ last.op = "GP22" => getClkPreDiv(config) = 1
  /\ (last.op = "setClkPreDiv" /\ last.args[1] \in {1, 2, 4})
     => getClkPreDiv(config) = last.args[1]
  /\ (last.op = "setClkPreDiv" /\ last.args[1] \notin {1, 2, 4})
     => /\ config = prev.config
        /\ convN = prev.convN
  /\ last.op \notin {"GP22", "setClkPreDiv"}
     => getClkPreDiv(config) = getClkPreDiv(prev.config)

\* C7 witness: setClkPreDiv(3) was called while the divider was 4.
C7_Witness ==
  /\ last.op = "setClkPreDiv"
  /\ last.args = <<3>>
  /\ getClkPreDiv(prev.config) = 4
  /\ convN = 4

-----------------------------------------------------------------------------
(* Properties of the first-wave settings, checked under SpecFirstWave.     *)

\* C1: for every offset in -36..35, setFirstWaveOffset(offset) followed by
\* getFirstWaveOffset() returns offset.
C1_FirstWaveOffsetRoundTrip ==
  (last.op = "setFirstWaveOffset" /\ last.args[1] \in (-36)..35)
  => getFirstWaveOffset(config) = last.args[1]

\* C6: after setFirstWaveDelays(stop1, stop2, stop3) with
\* 3 <= stop1 < stop2 < stop3 <= 63, register 3 holds stop1 in bits 8-13,
\* stop2 in bits 14-19 and stop3 in bits 20-25, and every other bit of the
\* register file is unchanged.
C6_FirstWaveDelaysStored ==
  (/\ last.op = "setFirstWaveDelays"
   /\ 3 <= last.args[1]
   /\ last.args[1] < last.args[2]
   /\ last.args[2] < last.args[3]
   /\ last.args[3] <= 63)
  => /\ RegField(config[3], 8, 13) = last.args[1]
     /\ RegField(config[3], 14, 19) = last.args[2]
     /\ RegField(config[3], 20, 25) = last.args[3]
     /\ RegField(config[3], 0, 7) = RegField(prev.config[3], 0, 7)
     /\ RegField(config[3], 26, 31) = RegField(prev.config[3], 26, 31)
     /\ \A r \in (0..6) \ {3} : config[r] = prev.config[r]

-----------------------------------------------------------------------------
(* Properties of the status decoder, checked under SpecStatus.             *)

\* bits lo..hi of the 16-bit word w, as a number
Bits(w, lo, hi) == (w \div (2 ^ lo)) % (2 ^ (hi - lo + 1))

\* C8: readStatus() stores the word the device answered with; on the stored
\* word timedOut() is true iff bit 9 or bit 10 is set, getMeasuredHits(CH1)
\* is bits 3-5, getMeasuredHits(CH2) is bits 6-8 and getReadPointer() is
\* bits 0-2, each in 0..7; and no operation other than readStatus() changes
\* the stored word.
C8_StatusDecode ==
  /\ last.op = "readStatus" => status = last.args[1]
  /\ timedOut(status) <=> (bitRead(status, 9) = 1 \/ bitRead(status, 10) = 1)
  /\ getMeasuredHits(status, CH1) = Bits(status, 3, 5)
  /\ getMeasuredHits(status, CH2) = Bits(status, 6, 8)
  /\ getReadPointer(status) = Bits(status, 0, 2)
  /\ getMeasuredHits(status, CH1) \in 0..7
  /\ getMeasuredHits(status, CH2) \in 0..7
  /\ getReadPointer(status) \in 0..7
  /\ last.op = "timedOut" => last.ret = (Bits(status, 9, 10) # 0)
  /\ last.op = "getMeasuredHits"
     => last.ret = Bits(status, IF last.args[1] = CH1 THEN 3 ELSE 6,
                                IF last.args[1] = CH1 THEN 5 ELSE 8)
  /\ last.op = "getReadPointer" => last.ret = Bits(status, 0, 2)
  /\ last.op \notin {"GP22", "readStatus"} => status = prev.status

\* C8 witness: measure() was called after readStatus() stored a word with
\* only the upper timeout bit set, and the word is still stored.
C8_Witness ==
  /\ last.op = "measure"
  /\ status = 1024
  /\ prev.status = 1024
  /\ timedOut(status)

-----------------------------------------------------------------------------
(* Properties of the configuration pushes, checked under SpecPush.         *)

\* the transfers wire[from .. from + 6] are the seven register writes of
\* cfg, in register order, opcode 0x80 + i with the four bytes in order
SevenWrites(ts, from, cfg) ==
  \A i \in 0..6 :
    /\ ts[from + i].opcode = 128 + i
    /\ ts[from + i].data = <<cfg[i][0], cfg[i][1], cfg[i][2], cfg[i][3]>>

\* C9: updateConfig() issues exactly 7 four-byte transfers, register i with
\* opcode 0x80 + i and its bytes in order, and leaves the shadow register
\* file alone; begin() sends opcode 0x50 and then the same 7 transfers;
\* after either the device's registers equal the shadow register file.
C9_FullConfigPush ==
  /\ last.op = "updateConfig"
     => /\ Len(wire) = 7
        /\ SevenWrites(wire, 1, config)
        /\ config = prev.config
        /\ \A r \in 0..6 : dev[r] = config[r]
  /\ last.op = "begin"
     => /\ Len(wire) = 8
        /\ wire[1] = [opcode |-> 80, data |-> <<>>]
        /\ SevenWrites(wire, 2, config)
        /\ config = prev.config
        /\ \A r \in 0..6 : dev[r] = config[r]

\* C9 witness: updateConfig() was called when the device had been written
\* before and register 4 of the shadow file had changed since.
C9_Witness ==
  /\ last.op = "updateConfig"
  /\ prev.dev[0] = config[0]
  /\ prev.dev[4] # config[4]
  /\ dev[4] = config[4]

\* C10: updateALUInstruction(instr) with 4-bit operator codes stores hit1Op
\* in bits 0-3 and hit2Op in bits 4-7 of shadow register 1 byte 0, then
\* issues exactly one transfer, opcode 0x81 with the four bytes of shadow
\* register 1; the device's register 1 then equals shadow register 1 and
\* no other device register changes, so un-pushed changes stay un-pushed.
C10_AluFastPath ==
  (/\ last.op = "updateALUInstruction"
   /\ last.args[1] \in 0..15
   /\ last.args[2] \in 0..15)
  => /\ config[1][0] % 16 = last.args[1]
     /\ config[1][0] \div 16 = last.args[2]
     /\ SameExceptBytes(config, prev.config, {<<1, 0>>})
     /\ wire = <<[opcode |-> 129,
                  data |-> <<config[1][0], config[1][1],
                             config[1][2], config[1][3]>>]>>
     /\ dev[1] = config[1]
     /\ \A r \in (0..6) \ {1} :
          /\ dev[r] = prev.dev[r]
          /\ prev.dev[r] # prev.config[r] => dev[r] # config[r]

\* C10 witness: updateALUInstruction was called with operators 9 and 6
\* after begin(), while a change of register 6 was waiting to be pushed.
C10_Witness ==
  /\ last.op = "updateALUInstruction"
  /\ last.args = <<9, 6>>
  /\ dev[0] = config[0]
  /\ dev[6] # config[6]
  /\ prev.dev[1] # dev[1]

-----------------------------------------------------------------------------
(* Properties of the named settings, checked under SpecFrame.              *)

\* the names of the setters and of the getters
SetterOps ==
  {"setExpectedHits", "setSingleRes", "setDoubleRes", "setQuadRes",
   "setMeasurementMode", "setClkPreDiv", "setAutoCalcOn", "defineHit1Op",
   "defineHit2Op", "setEdgeSensitivity", "setFirstWaveMode",
   "setFirstWaveDelays", "setFirstWaveRisingEdge", "setFirstWaveOffset",
   "setPulseWidthMeasOn"}

GetterOps == {g[1] : g \in Getters}

\* C11: no setter and no getter of a named setting issues a transfer, so
\* the device's registers are as they were before the call, before begin()
\* as well as after it; the device's registers change only in begin(),
\* updateConfig() and updateALUInstruction(), and a getter leaves the shadow
\* registers alone.
C11_SettersIssueNoTransfer ==
  /\ last.op \in SetterOps \cup GetterOps => (wire = <<>> /\ dev = prev.dev)
  /\ last.op \in GetterOps => config = prev.config
  /\ dev # prev.dev => last.op \in {"begin", "updateConfig", "updateALUInstruction"}

\* a setter has changed the shadow registers after begin(), and the device
\* still holds the register file it was given
C11_Witness ==
  /\ last.op \in SetterOps
  /\ config # prev.config
  /\ prev.dev = prev.config
  /\ dev = prev.dev
  /\ dev # config

-----------------------------------------------------------------------------
(* Properties of the ALU operator fields, checked under SpecAlu.           *)

\* C12: defineHit1Op(op) leaves bits 4-7 of register 1 byte 0 as they were
\* and defineHit2Op(op) leaves bits 0-3 as they were, for every 8-bit op;
\* for op in 0..15 the getter of the field returns op afterwards.
C12_HitOpsKeepOtherField ==
  /\ last.op = "defineHit1Op"
       => /\ SameOutside(config, prev.config, 1, 0, 0..3)
          /\ last.args[1] \in 0..15 => getHit1Op(config) = last.args[1]
  /\ last.op = "defineHit2Op"
       => /\ SameOutside(config, prev.config, 1, 0, 4..7)
          /\ last.args[1] \in 0..15 => getHit2Op(config) = last.args[1]

-----------------------------------------------------------------------------
(* The measurement mode read back, checked under Spec.                     *)

\* C13: after setMeasurementMode(m) with m = 1 or m = 2,
\* getMeasurementMode() returns m; any other m leaves the whole register
\* file, the mode bit included, as it was.
C13_MeasurementModeRoundTrip ==
  last.op = "setMeasurementMode"
    => /\ last.args[1] \in {1, 2} => getMeasurementMode(config) = last.args[1]
       /\ last.args[1] \notin {1, 2} => config = prev.config

-----------------------------------------------------------------------------
(* First-wave mode, checked under SpecFrame.                               *)

\* C14: after setFirstWaveMode(on), isFirstWaveMode() returns on, for on
\* true and for on false, and the call changes bit 6 of register 3 byte 0
\* and no other bit of the register file.
C14_FirstWaveModeRoundTrip ==
  last.op = "setFirstWaveMode"
    => /\ isFirstWaveMode(config) = last.args[1]
       /\ SameOutside(config, prev.config, 3, 0, {6})
       /\ SameExceptBytes(config, prev.config, {<<3, 0>>})

-----------------------------------------------------------------------------
(* First-wave edge, checked under SpecFirstWave.                           *)

\* C15: after setFirstWaveRisingEdge(on), isFirstWaveRisingEdge() returns
\* on, true exactly when bit 7 of register 4 byte 2 is stored as 0;
\* setFirstWaveRisingEdge never changes what getFirstWaveOffset() returns,
\* and setFirstWaveOffset never changes bit 7.
C15_FirstWaveRisingEdgeRoundTrip ==
  /\ last.op = "setFirstWaveRisingEdge"
       => /\ isFirstWaveRisingEdge(config) = last.args[1]
          /\ isFirstWaveRisingEdge(config) = (bitRead(config[4][2], 7) = 0)
          /\ getFirstWaveOffset(config) = getFirstWaveOffset(prev.config)
  /\ last.op = "setFirstWaveOffset"
       => bitRead(config[4][2], 7) = bitRead(prev.config[4][2], 7)

-----------------------------------------------------------------------------
(* Edge sensitivities, checked under SpecEdge.                             *)

\* C16: after setEdgeSensitivity(start, stop1, stop2) the stored
\* sensitivities depend on the arguments only: a stop given 0 or 1 has its
\* edge bit (bit 1 / bit 2 of register 0 byte 2) equal to the argument and
\* its both-edges bit (bit 3 / bit 4 of register 2 byte 0) clear; a stop
\* given 2 has its both-edges bit set; the start bit equals a start of 0 or
\* 1; an argument outside the domain leaves its channel's bits as they were.
C16_EdgeSensitivityStored ==
  last.op = "setEdgeSensitivity"
    => LET start == last.args[1]
           stop1 == last.args[2]
           stop2 == last.args[3]
       IN  /\ start \in {0, 1} => bitRead(config[0][2], 0) = start
           /\ start \notin {0, 1}
                => bitRead(config[0][2], 0) = bitRead(prev.config[0][2], 0)
           /\ stop1 \in {0, 1}
                => /\ bitRead(config[0][2], 1) = stop1
                   /\ bitRead(config[2][0], 3) = 0
           /\ stop1 = 2 => bitRead(config[2][0], 3) = 1
           /\ stop1 \notin {0, 1, 2}
                => /\ bitRead(config[0][2], 1) = bitRead(prev.config[0][2], 1)
                   /\ bitRead(config[2][0], 3) = bitRead(prev.config[2][0], 3)
           /\ stop2 \in {0, 1}
                => /\ bitRead(config[0][2], 2) = stop2
                   /\ bitRead(config[2][0], 4) = 0
           /\ stop2 = 2 => bitRead(config[2][0], 4) = 1
           /\ stop2 \notin {0, 1, 2}
                => /\ bitRead(config[0][2], 2) = bitRead(prev.config[0][2], 2)
                   /\ bitRead(config[2][0], 4) = bitRead(prev.config[2][0], 4)

-----------------------------------------------------------------------------
(* Resolution of the legacy driver, checked under SpecLegacy.              *)

\* C17: in every state reached by the legacy setSingleRes(b),
\* setDoubleRes(b) and setQuadRes(b), exactly one of isSingleRes(),
\* isDoubleRes(), isQuadRes() reads true; setDoubleRes(true) called while
\* quad resolution is active leaves quad resolution inactive; and
\* setSingleRes(true) leaves bits 4 and 5 of register 6 byte 2 cleared.
C17_LegacyResolutionExclusive ==
  /\ Cardinality({g \in {"single", "double", "quad"} :
                    \/ g = "single" /\ isSingleRes(config)
                    \/ g = "double" /\ isDoubleRes(config)
                    \/ g = "quad" /\ isQuadRes(config)}) = 1
  /\ (last.op = "setDoubleRes" /\ last.args = <<TRUE>> /\ isQuadRes(prev.config))
       => ~isQuadRes(config)
  /\ (last.op = "setSingleRes" /\ last.args = <<TRUE>>)
       => (bitRead(config[6][2], 4) = 0 /\ bitRead(config[6][2], 5) = 0)

-----------------------------------------------------------------------------
(* The communication test, checked under SpecComms.                        *)

\* C18, as stated: on a fault-free transport testComms() returns true in
\* every state reached after begin() has given the device the register
\* file, un-pushed defineHit1Op / defineHit2Op changes included.
C18_TestCommsTrueAfterBegin ==
  (last.op = "testComms" /\ dev[0] = config[0]) => last.ret = TRUE

\* C18, amended: on a fault-free transport testComms() issues the one read
\* of register 5, changes neither the shadow nor the device, and returns
\* true exactly when byte 0 of shadow register 1 equals byte 0 of register 1
\* as the device last received it; begin(), updateConfig() and
\* updateALUInstruction() leave the two equal, defineHit1Op and defineHit2Op
\* change the shadow byte only.
C18_TestCommsComparesShadow ==
  /\ last.op = "testComms"
       => /\ wire = <<Transfer(181, <<0>>)>>
          /\ last.ret = (dev[1][0] = config[1][0])
          /\ config = prev.config
          /\ dev = prev.dev
  /\ last.op \in {"begin", "updateConfig", "updateALUInstruction"}
       => dev[1][0] = config[1][0]
  /\ last.op \in {"defineHit1Op", "defineHit2Op"}
       => /\ dev = prev.dev
          /\ SameExceptBytes(config, prev.config, {<<1, 0>>})

\* testComms() has returned false after begin() on the fault-free
\* transport: a defineHit1Op / defineHit2Op change is un-pushed
C18_Witness ==
  /\ last.op = "testComms"
  /\ last.ret = FALSE
  /\ dev[0] = config[0]
  /\ dev[1][0] # config[1][0]
  /\ dev[1][1] = config[1][1]

=============================================================================
